---- MODULE Spec2Model ----
(***************************************************************************)
(* Model of sanctifier-core (tooling/sanctifier-core/src/lib.rs): the      *)
(* Analyzer, its ledger-size estimator and its unsafe-pattern visitor.     *)
(*                                                                         *)
(* Source text is represented by the syntax tree syn would build for it:   *)
(* a sequence of items, where an item that syn cannot parse is the item    *)
(* Invalid.  parse_str fails when any part of the text is Invalid.         *)
(***************************************************************************)
EXTENDS Integers, Sequences, FiniteSets, TLC

VARIABLES strict_mode, ledger_limit, input, ret, history

vars == <<strict_mode, ledger_limit, input, ret, history>>

(***************************************************************************)
(* Bounds of the model.                                                    *)
(***************************************************************************)
MaxFields == 3
MaxItems == 2
MaxNodes == 4
MaxCalls == 3

(***************************************************************************)
(* Syntax trees (syn::Type, syn::Fields, syn::Attribute, syn::ItemStruct). *)
(***************************************************************************)
TypePath(segments) == [kind |-> "Path", segments |-> segments]

TypeOther(kind) == [kind |-> kind]

FieldsNamed(tys) == [kind |-> "Named", tys |-> tys]

FieldsUnnamed(tys) == [kind |-> "Unnamed", tys |-> tys]

FieldsUnit == [kind |-> "Unit"]

AttrPath(path) == [meta |-> "Path", path |-> path]

AttrList(path) == [meta |-> "List", path |-> path]

ItemStruct(ident, attrs, fields) ==
    [kind |-> "Struct", ident |-> ident, attrs |-> attrs, fields |-> fields]

(***************************************************************************)
(* Items, statements and expressions (syn::Item, syn::Stmt, syn::Expr,     *)
(* syn::Macro).  A macro's arguments are an unparsed token stream.         *)
(***************************************************************************)
ItemMod(items) == [kind |-> "Mod", items |-> items]

ItemFn(block) == [kind |-> "Fn", block |-> block]

ItemInvalid == [kind |-> "Invalid"]

Macro(path, tokens) == [path |-> path, tokens |-> tokens]

StmtExpr(expr) == [kind |-> "Expr", expr |-> expr]

StmtMacro(mac) == [kind |-> "Macro", mac |-> mac]

StmtItem(item) == [kind |-> "Item", item |-> item]

ExprPath(ident) == [kind |-> "Path", ident |-> ident]

ExprLit == [kind |-> "Lit"]

ExprMacro(mac) == [kind |-> "Macro", mac |-> mac]

ExprMethodCall(receiver, method, args) ==
    [kind |-> "MethodCall", receiver |-> receiver, method |-> method, args |-> args]

ExprCall(func, args) == [kind |-> "Call", func |-> func, args |-> args]

ExprClosure(body) == [kind |-> "Closure", body |-> body]

ExprBlock(stmts) == [kind |-> "Block", stmts |-> stmts]

\* syn::Path::is_ident: a path of exactly one segment equal to the identifier
is_ident(path, ident) == Len(path) = 1 /\ path[1] = ident

(***************************************************************************)
(* Analyzer::estimate_type_size.  Sizes are usize; no sum of the sizes of  *)
(* the fields of a parsed structure comes near 2^64.                       *)
(***************************************************************************)
estimate_type_size_first_segment(ty) ==
    IF ty.kind = "Path"
    THEN IF Len(ty.segments) > 0
         THEN LET ident == ty.segments[1]
              IN CASE ident \in {"u32", "i32", "bool"} -> 4
                   [] ident \in {"u64", "i64"} -> 8
                   [] ident \in {"u128", "i128", "I128", "U128"} -> 16
                   [] ident = "Address" -> 32
                   [] ident \in {"Bytes", "BytesN", "String", "Symbol"} -> 64
                   [] ident \in {"Vec", "Map"} -> 128
                   [] OTHER -> 32
         ELSE 8
    ELSE 8

estimate_type_size(ty) ==
    IF ty.kind = "Path"
    THEN IF Len(ty.segments) > 0
         THEN LET ident == ty.segments[Len(ty.segments)]
              IN CASE ident \in {"u32", "i32", "bool"} -> 4
                   [] ident \in {"u64", "i64"} -> 8
                   [] ident \in {"u128", "i128", "I128", "U128"} -> 16
                   [] ident = "Address" -> 32
                   [] ident \in {"Bytes", "BytesN", "String", "Symbol"} -> 64
                   [] ident \in {"Vec", "Map"} -> 128
                   [] OTHER -> 32
         ELSE 8
    ELSE 8

(***************************************************************************)
(* Analyzer::estimate_struct_size: total_size += ... over the fields in    *)
(* declaration order.                                                      *)
(***************************************************************************)
RECURSIVE sum_field_sizes(_, _)
sum_field_sizes(total_size, tys) ==
    IF tys = <<>>
    THEN total_size
    ELSE sum_field_sizes(total_size + estimate_type_size(Head(tys)), Tail(tys))

estimate_struct_size(s) ==
    CASE s.fields.kind = "Named" -> sum_field_sizes(0, s.fields.tys)
      [] s.fields.kind = "Unnamed" -> sum_field_sizes(0, s.fields.tys)
      [] s.fields.kind = "Unit" -> 0

(***************************************************************************)
(* syn::parse_str::<File>: the whole text parses or the call fails.        *)
(***************************************************************************)
RECURSIVE items_parse(_)
RECURSIVE stmts_parse(_)
item_parses(item) ==
    CASE item.kind = "Invalid" -> FALSE
      [] item.kind = "Mod" -> items_parse(item.items)
      [] item.kind = "Fn" -> stmts_parse(item.block)
      [] OTHER -> TRUE

items_parse(items) == \A i \in DOMAIN items : item_parses(items[i])

stmts_parse(stmts) ==
    \A i \in DOMAIN stmts :
        stmts[i].kind = "Item" => item_parses(stmts[i].item)

parse_str(source) ==
    IF items_parse(source)
    THEN [ok |-> TRUE, file |-> [items |-> source]]
    ELSE [ok |-> FALSE]

(***************************************************************************)
(* Analyzer                                                                *)
(***************************************************************************)
DefaultLedgerLimit == 64000

new(strict) == [strict_mode |-> strict, ledger_limit |-> DefaultLedgerLimit]

scan_auth_gaps(self, code) == <<>>

RECURSIVE has_duplicate(_)
has_duplicate(keys) ==
    /\ keys # <<>>
    /\ \/ \E i \in DOMAIN Tail(keys) : Tail(keys)[i] = Head(keys)
       \/ has_duplicate(Tail(keys))

check_storage_collisions_detecting(self, keys) == has_duplicate(keys)

check_storage_collisions(self, keys) == FALSE

has_contracttype_unchecked(s) == TRUE

has_contracttype(s) ==
    \E i \in DOMAIN s.attrs :
        IF s.attrs[i].meta = "Path"
        THEN is_ident(s.attrs[i].path, "contracttype")
        ELSE FALSE

exceeds_limit(self, size) ==
    \/ size > self.ledger_limit
    \/ self.strict_mode /\ size > self.ledger_limit \div 2

size_warning_effective_limit(self, s, size) ==
    [struct_name |-> s.ident,
     estimated_size |-> size,
     limit |-> IF self.strict_mode THEN self.ledger_limit \div 2 ELSE self.ledger_limit]

size_warning(self, s, size) ==
    [struct_name |-> s.ident, estimated_size |-> size, limit |-> self.ledger_limit]

\* the body of `for item in file.items`
ledger_item(self, warnings, item) ==
    IF item.kind = "Struct"
    THEN IF has_contracttype(item)
         THEN LET size == estimate_struct_size(item)
              IN IF exceeds_limit(self, size)
                 THEN Append(warnings, size_warning(self, item, size))
                 ELSE warnings
         ELSE warnings
    ELSE warnings

RECURSIVE ledger_items(_, _, _)
ledger_items(self, warnings, items) ==
    IF items = <<>>
    THEN warnings
    ELSE ledger_items(self, ledger_item(self, warnings, Head(items)), Tail(items))

analyze_ledger_size(self, source) ==
    LET parsed == parse_str(source)
    IN IF parsed.ok
       THEN ledger_items(self, <<>>, parsed.file.items)
       ELSE <<>>

(***************************************************************************)
(* UnsafeVisitor.  Every visit operator takes the visitor's patterns so    *)
(* far and returns them after the visit (self.patterns.push).              *)
(*                                                                         *)
(* Layout of the source text, for the line of a span: an item starts on a  *)
(* line of its own, `fn .. {` and `mod .. {` take one line, each statement *)
(* of a function body one line, and the closing brace one line.  With      *)
(* step = 0 (inside a statement) everything stays on the current line.     *)
(***************************************************************************)
RECURSIVE item_height(_)
RECURSIVE items_height(_)
item_height(item) ==
    CASE item.kind = "Fn" -> 2 + Len(item.block)
      [] item.kind = "Mod" -> 2 + items_height(item.items)
      [] OTHER -> 1

items_height(items) ==
    IF items = <<>> THEN 0 ELSE item_height(Head(items)) + items_height(Tail(items))

RECURSIVE visit_items(_, _, _, _)
RECURSIVE visit_item(_, _, _, _)
RECURSIVE visit_stmts(_, _, _, _)
RECURSIVE visit_stmt(_, _, _)
RECURSIVE visit_exprs(_, _, _)
RECURSIVE visit_expr(_, _, _)
RECURSIVE visit_expr_method_call(_, _, _)
RECURSIVE syn_visit_expr_method_call(_, _, _)

\* syn::visit::visit_macro visits the macro's path; the tokens are no nodes
syn_visit_macro(patterns, i, line) == patterns

visit_macro(patterns, i, line) ==
    LET pushed == IF is_ident(i.path, "panic")
                  THEN Append(patterns,
                              [pattern_type |-> "Panic", line |-> line, snippet |-> "panic!"])
                  ELSE patterns
    IN syn_visit_macro(pushed, i, line)

\* syn::visit::visit_expr_method_call: the receiver, then the arguments
syn_visit_expr_method_call(patterns, i, line) ==
    visit_exprs(visit_expr(patterns, i.receiver, line), i.args, line)

visit_expr_method_call_no_descent(patterns, i, line) ==
    LET method_name == i.method
    IN IF method_name = "unwrap" \/ method_name = "expect"
       THEN Append(patterns,
                   [pattern_type |-> IF method_name = "unwrap" THEN "Unwrap" ELSE "Expect",
                    line |-> line,
                    snippet |-> method_name])
       ELSE syn_visit_expr_method_call(patterns, i, line)

visit_expr_method_call_post_order(patterns, i, line) ==
    LET method_name == i.method
        visited == syn_visit_expr_method_call(patterns, i, line)
    IN IF method_name = "unwrap" \/ method_name = "expect"
       THEN Append(visited,
                   [pattern_type |-> IF method_name = "unwrap" THEN "Unwrap" ELSE "Expect",
                    line |-> line,
                    snippet |-> method_name])
       ELSE visited

visit_expr_method_call(patterns, i, line) ==
    LET method_name == i.method
        pushed == IF method_name = "unwrap" \/ method_name = "expect"
                  THEN Append(patterns,
                              [pattern_type |-> IF method_name = "unwrap"
                                                THEN "Unwrap" ELSE "Expect",
                               line |-> line,
                               snippet |-> method_name])
                  ELSE patterns
    IN syn_visit_expr_method_call(pushed, i, line)

\* syn::visit::visit_expr
visit_expr(patterns, e, line) ==
    CASE e.kind = "MethodCall" -> visit_expr_method_call(patterns, e, line)
      [] e.kind = "Macro" -> visit_macro(patterns, e.mac, line)
      [] e.kind = "Call" -> visit_exprs(visit_expr(patterns, e.func, line), e.args, line)
      [] e.kind = "Closure" -> visit_expr(patterns, e.body, line)
      [] e.kind = "Block" -> visit_stmts(patterns, e.stmts, line, 0)
      [] OTHER -> patterns

visit_exprs(patterns, es, line) ==
    IF es = <<>>
    THEN patterns
    ELSE visit_exprs(visit_expr(patterns, Head(es), line), Tail(es), line)

\* syn::visit::visit_stmt
visit_stmt(patterns, stmt, line) ==
    CASE stmt.kind = "Expr" -> visit_expr(patterns, stmt.expr, line)
      [] stmt.kind = "Macro" -> visit_macro(patterns, stmt.mac, line)
      [] stmt.kind = "Item" -> visit_item(patterns, stmt.item, line, 0)

\* syn::visit::visit_block
visit_stmts(patterns, stmts, line, step) ==
    IF stmts = <<>>
    THEN patterns
    ELSE visit_stmts(visit_stmt(patterns, Head(stmts), line), Tail(stmts),
                     line + step, step)

\* syn::visit::visit_item
visit_item(patterns, item, line, step) ==
    CASE item.kind = "Fn" -> visit_stmts(patterns, item.block, line + step, step)
      [] item.kind = "Mod" -> visit_items(patterns, item.items, line + step, step)
      [] OTHER -> patterns

\* syn::visit::visit_file
visit_items(patterns, items, line, step) ==
    IF items = <<>>
    THEN patterns
    ELSE visit_items(visit_item(patterns, Head(items), line, step), Tail(items),
                     line + step * item_height(Head(items)), step)

visit_file(patterns, file) == visit_items(patterns, file.items, 1, 1)

analyze_unsafe_patterns_partial(self, source) ==
    visit_file(<<>>, [items |-> source])

analyze_unsafe_patterns(self, source) ==
    LET parsed == parse_str(source)
    IN IF parsed.ok
       THEN visit_file(<<>>, parsed.file)
       ELSE <<>>

(***************************************************************************)
(* Inputs the caller may supply.                                           *)
(***************************************************************************)
SourceInput(text) == [kind |-> "source", text |-> text]

KeysInput(keys) == [kind |-> "keys", keys |-> keys]

StructInput(s) == [kind |-> "struct", s |-> s]

\* ledger_limit is a public field: the owner may set it after new()
OwnerLimits == {40, 64, 128}

ContractType == AttrPath(<<"contracttype">>)

\* field types for the size table: every identifier of the table, an
\* unknown name, a qualified path and a type that is no path
SizeTypes ==
    {TypePath(<<id>>) :
        id \in {"u32", "i32", "bool", "u64", "i64", "u128", "i128", "I128", "U128",
                "Address", "Bytes", "BytesN", "String", "Symbol", "Vec", "Map",
                "Custom"}}
    \cup {TypePath(<<"soroban_sdk", "Bytes">>), TypeOther("Reference")}

\* the structure with the given field types: named fields, positional
\* fields, or (without fields) a unit structure
SizeStruct(form, tys) ==
    ItemStruct("Data", <<ContractType>>,
               CASE form = "Named" -> FieldsNamed(tys)
                 [] form = "Unnamed" -> FieldsUnnamed(tys)
                 [] form = "Unit" -> FieldsUnit)

\* sources for the ledger analysis: structures with and without the
\* marker, of sizes 0, 32 and 128, at the top level, in a module and in a
\* function body
StructNames == <<"Config", "State", "Entry", "Record">>

NameAt(i) == StructNames[((i - 1) % Len(StructNames)) + 1]

LedgerAttrs ==
    {<<>>,
     <<ContractType>>,
     <<AttrPath(<<"soroban_sdk", "contracttype">>)>>,
     <<AttrList(<<"derive">>), ContractType>>,
     <<AttrList(<<"contracttype">>)>>}

LedgerFields ==
    {FieldsUnit,
     FieldsNamed(<<TypePath(<<"Address">>)>>),
     FieldsUnnamed(<<TypePath(<<"Vec">>)>>)}

LedgerPlaces == {"file", "mod", "fn"}

\* the structure named ident, declared at the top level of the file, inside
\* `mod m { .. }` or inside the body of `fn f() { .. }`
LedgerItem(ident, attrs, fields, place) ==
    LET s == ItemStruct(ident, attrs, fields)
    IN CASE place = "file" -> s
         [] place = "mod" -> ItemMod(<<s>>)
         [] place = "fn" -> ItemFn(<<StmtItem(s)>>)

\* sources for the unsafe-pattern analysis: function bodies of at most
\* MaxNodes expression nodes
LeafExprs ==
    {ExprPath("x"),
     ExprMacro(Macro(<<"panic">>, <<"\"error\"">>)),
     ExprMacro(Macro(<<"std", "panic">>, <<"\"error\"">>)),
     ExprMacro(Macro(<<"assert">>, <<"x", ".", "unwrap", "(", ")", ".", "is_ok", "(", ")">>))}

\* `e;` as a statement: a macro invocation in statement position is
\* Stmt::Macro, any other expression Stmt::Expr
StmtOf(e) == IF e.kind = "Macro" THEN StmtMacro(e.mac) ELSE StmtExpr(e)

WrapExpr(e) ==
    {ExprMethodCall(e, "unwrap", <<>>),
     ExprMethodCall(e, "expect", <<ExprLit>>),
     ExprMethodCall(e, "len", <<>>),
     ExprCall(ExprPath("f"), <<e>>),
     ExprClosure(e),
     ExprBlock(<<StmtOf(e)>>)}

RECURSIVE ExprsOfSize(_)
ExprsOfSize(n) ==
    IF n = 1
    THEN LeafExprs
    ELSE UNION {WrapExpr(e) : e \in ExprsOfSize(n - 1)}
         \cup UNION {{ExprMethodCall(r, "unwrap_or", <<a>>) :
                         r \in ExprsOfSize(k), a \in ExprsOfSize(n - 1 - k)} :
                     k \in 1..(n - 2)}

RECURSIVE BodiesOfSize(_)
BodiesOfSize(n) ==
    IF n = 0
    THEN {<<>>}
    ELSE UNION {{<<StmtOf(e)>> \o b : e \in ExprsOfSize(k), b \in BodiesOfSize(n - k)} :
                   k \in 1..n}

\* `fn f() { body }` at the top level of the file or inside `mod m { .. }`
UnsafeSource(body, place) ==
    CASE place = "file" -> <<ItemFn(body)>>
      [] place = "mod" -> <<ItemMod(<<ItemFn(body)>>)>>

\* inputs for sequences of calls on one Analyzer
BigStruct == ItemStruct("Config", <<ContractType>>, FieldsUnnamed(<<TypePath(<<"Vec">>)>>))

PanicFn ==
    ItemFn(<<StmtMacro(Macro(<<"panic">>, <<"\"error\"">>)),
             StmtExpr(ExprMethodCall(ExprPath("x"), "unwrap", <<>>))>>)

EngineSources ==
    {<<BigStruct, PanicFn>>,
     <<PanicFn>>,
     <<BigStruct, PanicFn, ItemInvalid>>,
     <<ItemMod(<<ItemInvalid>>)>>}

EngineKeys == {<<>>, <<"admin", "balance">>, <<"admin", "admin">>}

EngineInputs ==
    {SourceInput(t) : t \in EngineSources} \cup {KeysInput(k) : k \in EngineKeys}

(***************************************************************************)
(* State: the Analyzer's two fields; the input the caller holds; the value *)
(* returned by the call in progress; the calls made so far on this         *)
(* Analyzer, each with the configuration it read.                          *)
(***************************************************************************)
NoRet == [entry |-> "none"]

self == [strict_mode |-> strict_mode, ledger_limit |-> ledger_limit]

Returned(entry, value) ==
    /\ ret' = [entry |-> entry, value |-> value]
    /\ history' = Append(history,
                         [entry |-> entry, input |-> input,
                          strict_mode |-> strict_mode, ledger_limit |-> ledger_limit,
                          value |-> value])

\* Analyzer::new(strict), then the owner may assign ledger_limit
InitAnalyzer(stricts, limits) ==
    \E strict \in stricts :
        /\ strict_mode = new(strict).strict_mode
        /\ ledger_limit \in {new(strict).ledger_limit} \cup limits

InitWith(inputs, stricts, limits) ==
    /\ InitAnalyzer(stricts, limits)
    /\ input \in inputs
    /\ ret = NoRet
    /\ history = <<>>

InitLedgerSource(max) ==
    /\ InitAnalyzer(BOOLEAN, OwnerLimits)
    /\ \E n \in 1..max :
           \E shapes \in [1..n -> LedgerAttrs \X LedgerFields \X LedgerPlaces] :
               input = SourceInput([i \in 1..n |->
                           LedgerItem(NameAt(i), shapes[i][1], shapes[i][2], shapes[i][3])])
    /\ ret = NoRet
    /\ history = <<>>

InitUnsafeSource(max) ==
    /\ InitAnalyzer(BOOLEAN, {})
    /\ \E n \in 1..max : \E k \in 1..n :
           \E e \in ExprsOfSize(k) : \E b \in BodiesOfSize(n - k) :
               \E place \in (IF n <= max - 2 THEN {"file", "mod"} ELSE {"file"}) :
                   input = SourceInput(UnsafeSource(<<StmtOf(e)>> \o b, place))
    /\ ret = NoRet
    /\ history = <<>>

InitStruct(max) ==
    /\ InitAnalyzer({FALSE}, {})
    /\ \/ \E n \in 0..max : \E tys \in [1..n -> SizeTypes] :
             \E form \in {"Named", "Unnamed"} :
                 input = StructInput(SizeStruct(form, tys))
       \/ input = StructInput(SizeStruct("Unit", <<>>))
    /\ ret = NoRet
    /\ history = <<>>

ScanAuthGaps ==
    /\ ret.entry = "none"
    /\ input.kind = "source"
    /\ Returned("scan_auth_gaps", scan_auth_gaps(self, input.text))
    /\ UNCHANGED <<strict_mode, ledger_limit, input>>

CheckStorageCollisions ==
    /\ ret.entry = "none"
    /\ input.kind = "keys"
    /\ Returned("check_storage_collisions", check_storage_collisions(self, input.keys))
    /\ UNCHANGED <<strict_mode, ledger_limit, input>>

AnalyzeLedgerSizeHalving ==
    /\ ret.entry = "none"
    /\ input.kind = "source"
    /\ Returned("analyze_ledger_size", analyze_ledger_size(self, input.text))
    /\ ledger_limit' = IF strict_mode THEN ledger_limit \div 2 ELSE ledger_limit
    /\ UNCHANGED <<strict_mode, input>>

AnalyzeLedgerSize ==
    /\ ret.entry = "none"
    /\ input.kind = "source"
    /\ Returned("analyze_ledger_size", analyze_ledger_size(self, input.text))
    /\ UNCHANGED <<strict_mode, ledger_limit, input>>

AnalyzeUnsafePatterns ==
    /\ ret.entry = "none"
    /\ input.kind = "source"
    /\ Returned("analyze_unsafe_patterns", analyze_unsafe_patterns(self, input.text))
    /\ UNCHANGED <<strict_mode, ledger_limit, input>>

EstimateStructSize ==
    /\ ret.entry = "none"
    /\ input.kind = "struct"
    /\ Returned("estimate_struct_size", estimate_struct_size(input.s))
    /\ UNCHANGED <<strict_mode, ledger_limit, input>>

\* the caller takes the returned value and supplies the next input
Submit ==
    /\ ret.entry # "none"
    /\ Len(history) < MaxCalls
    /\ input' \in EngineInputs
    /\ ret' = NoRet
    /\ UNCHANGED <<strict_mode, ledger_limit, history>>

\* any sequence of calls to the four entry points on one Analyzer
Init == InitWith(EngineInputs, BOOLEAN, OwnerLimits)

Next ==
    \/ ScanAuthGaps
    \/ CheckStorageCollisions
    \/ AnalyzeLedgerSize
    \/ AnalyzeUnsafePatterns
    \/ Submit

Spec == Init /\ [][Next]_vars

\* one call of analyze_ledger_size on each source of at most MaxItems items
InitLedger == InitLedgerSource(MaxItems)

NextLedger == AnalyzeLedgerSize

SpecLedger == InitLedger /\ [][NextLedger]_vars

\* one call of analyze_unsafe_patterns on each source of at most MaxNodes nodes
InitUnsafe == InitUnsafeSource(MaxNodes)

NextUnsafe == AnalyzeUnsafePatterns

SpecUnsafe == InitUnsafe /\ [][NextUnsafe]_vars

\* estimate_struct_size on each structure of at most MaxFields fields
InitSize == InitStruct(MaxFields)

NextSize == EstimateStructSize

SpecSize == InitSize /\ [][NextSize]_vars

(***************************************************************************)
(* Vocabulary of the properties.                                           *)
(***************************************************************************)
\* every structure declared in the source, at any depth, in declaration order
RECURSIVE StructsInItems(_)
RECURSIVE StructsInStmts(_)
StructsInItem(item) ==
    CASE item.kind = "Struct" -> <<item>>
      [] item.kind = "Mod" -> StructsInItems(item.items)
      [] item.kind = "Fn" -> StructsInStmts(item.block)
      [] OTHER -> <<>>

StructsInItems(items) ==
    IF items = <<>> THEN <<>> ELSE StructsInItem(Head(items)) \o StructsInItems(Tail(items))

StructsInStmts(stmts) ==
    IF stmts = <<>>
    THEN <<>>
    ELSE (IF Head(stmts).kind = "Item" THEN StructsInItem(Head(stmts).item) ELSE <<>>)
         \o StructsInStmts(Tail(stmts))

\* the structure carries the persistence marker #[contracttype]
IsTagged(s) == \E i \in DOMAIN s.attrs : s.attrs[i] = ContractType

\* the warning policy: over the limit, or in strict mode over half of it
OverThreshold(size) ==
    \/ size > ledger_limit
    \/ strict_mode /\ 2 * size > ledger_limit

Count(seq, Test(_)) == Cardinality({i \in DOMAIN seq : Test(seq[i])})

LedgerReturned == ret.entry = "analyze_ledger_size"

UnsafeReturned == ret.entry = "analyze_unsafe_patterns"

TopLevelStructs == SelectSeq(input.text, LAMBDA item : item.kind = "Struct")

\* C1: every tagged structure of the analysed source yields exactly one
\* SizeWarning when its estimated size is over the limit, or in strict mode
\* over half the limit, and none otherwise.
C1_OneWarningPerOffendingStructure ==
    LedgerReturned =>
        LET structs == StructsInItems(input.text)
        IN \A k \in DOMAIN structs :
               IsTagged(structs[k]) =>
                   LET Named(x) == x.ident = structs[k].ident
                       Offending(x) ==
                           /\ Named(x)
                           /\ IsTagged(x)
                           /\ OverThreshold(estimate_struct_size(x))
                       Warns(w) == w.struct_name = structs[k].ident
                   IN Count(ret.value, Warns) = Count(structs, Offending)

\* C6: a tagged structure over the threshold produces its SizeWarning
\* wherever it is declared: at the top level, in a module, in a function.
C6_TaggedStructureFoundAnywhere ==
    LedgerReturned =>
        LET structs == StructsInItems(input.text)
        IN \A k \in DOMAIN structs :
               (IsTagged(structs[k]) /\ OverThreshold(estimate_struct_size(structs[k])))
                   => \E i \in DOMAIN ret.value :
                          /\ ret.value[i].struct_name = structs[k].ident
                          /\ ret.value[i].estimated_size = estimate_struct_size(structs[k])

\* C7: every SizeWarning names a structure that carries the marker; a
\* structure without the marker produces none, whatever its size and the
\* configuration.
C7_OnlyTaggedStructuresWarn ==
    LedgerReturned =>
        LET structs == StructsInItems(input.text)
        IN /\ \A i \in DOMAIN ret.value :
                  \E k \in DOMAIN structs :
                      IsTagged(structs[k]) /\ structs[k].ident = ret.value[i].struct_name
           /\ \A k \in DOMAIN structs :
                  ~IsTagged(structs[k]) =>
                      \A i \in DOMAIN ret.value :
                          ret.value[i].struct_name # structs[k].ident

\* an untagged structure of size 128 under strict mode and limit 40, next
\* to a tagged one that does warn
C7_Witness ==
    /\ LedgerReturned
    /\ strict_mode /\ ledger_limit = 40
    /\ Len(ret.value) = 1
    /\ \E k \in DOMAIN input.text :
           /\ input.text[k].kind = "Struct"
           /\ ~IsTagged(input.text[k])
           /\ estimate_struct_size(input.text[k]) = 128

\* C8: every SizeWarning carries the structure's name, its estimated size
\* and the configured limit itself, also when only the strict half
\* threshold was crossed.
C8_WarningCarriesConfiguredLimit ==
    LedgerReturned =>
        \A i \in DOMAIN ret.value :
            /\ ret.value[i].limit = ledger_limit
            /\ \E k \in DOMAIN TopLevelStructs :
                   /\ TopLevelStructs[k].ident = ret.value[i].struct_name
                   /\ estimate_struct_size(TopLevelStructs[k]) = ret.value[i].estimated_size

\* a warning raised by the half threshold only: size 32, limit 40, strict
C8_Witness ==
    /\ LedgerReturned
    /\ strict_mode
    /\ \E i \in DOMAIN ret.value :
           /\ ret.value[i].estimated_size = 32
           /\ ret.value[i].limit = 40

\* the per-field size table as the specification states it
TableSize(ident) ==
    CASE ident \in {"bool", "u32", "i32"} -> 4
      [] ident \in {"u64", "i64"} -> 8
      [] ident \in {"u128", "i128", "U128", "I128"} -> 16
      [] ident \in {"Address"} -> 32
      [] ident \in {"Bytes", "BytesN", "String", "Symbol"} -> 64
      [] ident \in {"Vec", "Map"} -> 128
      [] OTHER -> 32

FieldSize(ty) ==
    IF ty.kind = "Path" THEN TableSize(ty.segments[Len(ty.segments)]) ELSE 8

FieldTypes(s) == IF s.fields.kind = "Unit" THEN <<>> ELSE s.fields.tys

RECURSIVE SumOver(_, _)
SumOver(tys, n) == IF n = 0 THEN 0 ELSE SumOver(tys, n - 1) + FieldSize(tys[n])

SizeReturned == ret.entry = "estimate_struct_size"

\* C3: the estimated size of a structure is the sum over its fields of the
\* table value selected by the last segment of the field's type name; no
\* fields give 0; [u32, Address, Bytes] gives 100.
C3_SizeIsSumOfTable ==
    SizeReturned =>
        LET tys == FieldTypes(input.s)
        IN /\ ret.value = SumOver(tys, Len(tys))
           /\ tys = <<>> => ret.value = 0
           /\ tys = <<TypePath(<<"u32">>), TypePath(<<"Address">>), TypePath(<<"Bytes">>)>>
                  => ret.value = 100

\* struct Data { a: u32, b: Address, c: soroban_sdk::Bytes } estimated at 100
C3_Witness ==
    /\ SizeReturned
    /\ input.s.fields =
           FieldsNamed(<<TypePath(<<"u32">>), TypePath(<<"Address">>),
                         TypePath(<<"soroban_sdk", "Bytes">>)>>)
    /\ ret.value = 100

\* the pattern kinds of the matching nodes of a tree, in the order of the
\* source text: a method name follows its receiver and precedes its arguments
RECURSIVE TextExpr(_)
RECURSIVE TextExprs(_)
RECURSIVE TextStmts(_)
RECURSIVE TextItems(_)
TextMacro(mac) == IF mac.path = <<"panic">> THEN <<"Panic">> ELSE <<>>

TextMethod(method) ==
    CASE method = "unwrap" -> <<"Unwrap">>
      [] method = "expect" -> <<"Expect">>
      [] OTHER -> <<>>

TextExpr(e) ==
    CASE e.kind = "MethodCall" -> TextExpr(e.receiver) \o TextMethod(e.method) \o TextExprs(e.args)
      [] e.kind = "Macro" -> TextMacro(e.mac)
      [] e.kind = "Call" -> TextExpr(e.func) \o TextExprs(e.args)
      [] e.kind = "Closure" -> TextExpr(e.body)
      [] e.kind = "Block" -> TextStmts(e.stmts)
      [] OTHER -> <<>>

TextExprs(es) == IF es = <<>> THEN <<>> ELSE TextExpr(Head(es)) \o TextExprs(Tail(es))

TextItem(item) ==
    CASE item.kind = "Fn" -> TextStmts(item.block)
      [] item.kind = "Mod" -> TextItems(item.items)
      [] OTHER -> <<>>

TextStmt(stmt) ==
    CASE stmt.kind = "Expr" -> TextExpr(stmt.expr)
      [] stmt.kind = "Macro" -> TextMacro(stmt.mac)
      [] stmt.kind = "Item" -> TextItem(stmt.item)

TextStmts(stmts) == IF stmts = <<>> THEN <<>> ELSE TextStmt(Head(stmts)) \o TextStmts(Tail(stmts))

TextItems(items) == IF items = <<>> THEN <<>> ELSE TextItem(Head(items)) \o TextItems(Tail(items))

Kinds(patterns) == [i \in DOMAIN patterns |-> patterns[i].pattern_type]

SnippetOf(kind) ==
    CASE kind = "Panic" -> "panic!"
      [] kind = "Unwrap" -> "unwrap"
      [] kind = "Expect" -> "expect"

IsAccessor(e) ==
    /\ e.kind = "MethodCall"
    /\ \/ e.method = "unwrap" /\ e.args = <<>>
       \/ e.method = "expect" /\ e.args = <<ExprLit>>

TwoStatements(text) ==
    /\ Len(text) = 1
    /\ text[1].kind = "Fn"
    /\ Len(text[1].block) = 2
    /\ \A j \in 1..2 : text[1].block[j].kind = "Expr" /\ IsAccessor(text[1].block[j].expr)
    /\ text[1].block[1].expr.method # text[1].block[2].expr.method
    /\ text[1].block[1].expr.receiver = text[1].block[2].expr.receiver
    /\ TextExpr(text[1].block[1].expr.receiver) = <<>>

OneChain(text) ==
    /\ Len(text) = 1
    /\ text[1].kind = "Fn"
    /\ Len(text[1].block) = 1
    /\ text[1].block[1].kind = "Expr"
    /\ IsAccessor(text[1].block[1].expr)
    /\ IsAccessor(text[1].block[1].expr.receiver)
    /\ text[1].block[1].expr.method # text[1].block[1].expr.receiver.method
    /\ TextExpr(text[1].block[1].expr.receiver.receiver) = <<>>

Reverse(seq) == [i \in DOMAIN seq |-> seq[Len(seq) + 1 - i]]

\* C5 as claimed: in both forms the two records are ordered as the two calls
\* appear in the source text.
C5_RecordsInSourceOrder ==
    (UnsafeReturned /\ (TwoStatements(input.text) \/ OneChain(input.text))) =>
        /\ Len(ret.value) = 2
        /\ Kinds(ret.value) = TextItems(input.text)

\* C5 as amended: two records, one Unwrap and one Expect; written as two
\* statements they are in source order, written as one chain the outer
\* (textually later) call is recorded first.
C5_RecordsInEncounterOrder ==
    /\ (UnsafeReturned /\ TwoStatements(input.text)) =>
           /\ Kinds(ret.value) \in {<<"Unwrap", "Expect">>, <<"Expect", "Unwrap">>}
           /\ Kinds(ret.value) = TextItems(input.text)
    /\ (UnsafeReturned /\ OneChain(input.text)) =>
           /\ Kinds(ret.value) \in {<<"Unwrap", "Expect">>, <<"Expect", "Unwrap">>}
           /\ Kinds(ret.value) = Reverse(TextItems(input.text))

\* x.unwrap().expect(".."); recorded as Expect, then Unwrap
C5_Witness ==
    /\ UnsafeReturned
    /\ input.text =
           <<ItemFn(<<StmtExpr(ExprMethodCall(ExprMethodCall(ExprPath("x"), "unwrap", <<>>),
                                              "expect", <<ExprLit>>))>>)>>
    /\ Kinds(ret.value) = <<"Expect", "Unwrap">>

\* the text holds a part that is no Rust syntax
Unparsable(text) == ~parse_str(text).ok

IsAnalysis(call) == call.entry \in {"analyze_ledger_size", "analyze_unsafe_patterns"}

\* C2: on an unparsable source, analyze_unsafe_patterns and
\* analyze_ledger_size return the empty sequence, under every configuration.
C2_UnparsableGivesEmpty ==
    \A i \in DOMAIN history :
        (IsAnalysis(history[i]) /\ Unparsable(history[i].input.text))
            => history[i].value = <<>>

\* both analyses called on a text whose parsable part holds an over-limit
\* tagged structure, a panic! and an unwrap, followed by a part that does
\* not parse
C2_Witness ==
    /\ strict_mode /\ ledger_limit = 40
    /\ \E i, j \in DOMAIN history :
           /\ history[i].entry = "analyze_ledger_size"
           /\ history[j].entry = "analyze_unsafe_patterns"
           /\ history[i].input = SourceInput(<<BigStruct, PanicFn, ItemInvalid>>)
           /\ history[j].input = SourceInput(<<BigStruct, PanicFn, ItemInvalid>>)
           /\ history[i].value = <<>>
           /\ history[j].value = <<>>

SameCall(a, b) ==
    /\ a.entry = b.entry
    /\ a.input.kind = b.input.kind
    /\ a.input = b.input

\* C9: no call changes the configuration, and two calls of the same entry
\* point with the same input return the same value, whatever was called
\* in between.
C9_StatelessAcrossCalls ==
    /\ \A i \in DOMAIN history :
           /\ history[i].strict_mode = strict_mode
           /\ history[i].ledger_limit = ledger_limit
    /\ \A i, j \in DOMAIN history :
           SameCall(history[i], history[j]) => history[i].value = history[j].value

\* analyze_ledger_size twice on the same text with a warning to report, and
\* analyze_unsafe_patterns in between
C9_Witness ==
    /\ Len(history) = 3
    /\ SameCall(history[1], history[3])
    /\ history[1].entry = "analyze_ledger_size"
    /\ history[2].entry = "analyze_unsafe_patterns"
    /\ Len(history[1].value) = 1
    /\ Len(history[2].value) = 2
    /\ history[3].value = history[1].value

\* C10: scan_auth_gaps returns the empty sequence for every source and
\* check_storage_collisions returns false for every key list.
C10_ExtensionPointsTrivial ==
    \A i \in DOMAIN history :
        /\ history[i].entry = "scan_auth_gaps" => history[i].value = <<>>
        /\ history[i].entry = "check_storage_collisions" => history[i].value = FALSE

\* check_storage_collisions on a list with a duplicate key, scan_auth_gaps
\* on a parsable and on an unparsable source
C10_Witness ==
    \E i, j, k \in DOMAIN history :
        /\ history[i].entry = "check_storage_collisions"
        /\ history[i].input.keys = <<"admin", "admin">>
        /\ history[i].value = FALSE
        /\ history[j].entry = "scan_auth_gaps"
        /\ ~Unparsable(history[j].input.text)
        /\ history[k].entry = "scan_auth_gaps"
        /\ Unparsable(history[k].input.text)

====
